---- MODULE Spec2Model ----
(***************************************************************************)
(* GitSim: a simplified version-control repository (src/src/models.py).    *)
(*                                                                         *)
(* The state is the state of one Repo object: the commit registry, the     *)
(* branch mapping (a dict, so with its insertion order), the head          *)
(* reference and the id counter.  Every public method of Repo is one       *)
(* action.  A commit is referred to by its hash (commits are never         *)
(* mutated or removed, so a reference and a hash name the same object); a  *)
(* hash is the decimal string of a counter value and is modelled by that   *)
(* value.  The head reference is modelled by the name of the Branch object *)
(* it refers to (branches are never removed or replaced).  Commit          *)
(* timestamps (datetime.now()) are read by no code and are left out.       *)
(*                                                                         *)
(* The variable `last` observes the most recent call: its name and         *)
(* arguments, the exception it raised (if any), the value it returned and  *)
(* what the head branch pointed at when it began.                          *)
(***************************************************************************)
EXTENDS Integers, Sequences, FiniteSets, TLC

VARIABLES commits, branches, branch_order, head, next_id, last,
          node_coords, layout_nodes, layout_edges, vis_coords, shown,
          pc, commands, snapshots, command_texts, timeline, applied,
          index, nav, draws, drawn

repoVars == <<commits, branches, branch_order, head, next_id>>
\* a LayoutEngine: its _node_coords, and the arguments of its latest
\* compute_layout call; a GraphVisualizer: its _node_coords (vis_coords);
\* and shown, which observes a TimelineViewer: for each index it has shown,
\* the coordinates computed the first time
layoutVars == <<node_coords, layout_nodes, layout_edges, vis_coords, shown>>
\* The caller of the Repo methods.  pc is where it stands: "Repo" when the
\* methods are called directly, "build_timeline" and "snapshot" inside the
\* loop of build_timeline (before line 23 and before line 25), "Timeline"
\* when build_timeline has returned, "raise" when an exception has left it,
\* "TimelineViewer" once a viewer is constructed, "GitSimApp" and "_refresh"
\* inside a GitSimApp (before a method is called, and inside the method
\* before its _refresh call).
\* commands, snapshots and command_texts are the argument and the locals of
\* build_timeline (empty when there is no such call in progress), timeline is
\* the Timeline it returned (<<>> when there is none), applied counts the
\* commands whose method has returned.  index is TimelineViewer.index; nav
\* is the latest navigation call; draws counts the draw calls made by the
\* latest navigation call or GitSimApp operation and drawn holds the
\* arguments of the latest draw call.
callerVars == <<pc, commands, snapshots, command_texts, timeline, applied,
                index, nav, draws, drawn>>
vars == <<commits, branches, branch_order, head, next_id, last,
          node_coords, layout_nodes, layout_edges, vis_coords, shown,
          pc, commands, snapshots, command_texts, timeline, applied,
          index, nav, draws, drawn>>

(***************************************************************************)
(* Bounds of the model.                                                    *)
(***************************************************************************)
\* commit and merge create commits only while the counter is at most this
MaxCommits == 4

\* the arguments the callers pass
Names == {"main", "dev", "feature"}
Messages == {"c1"}
MergeMessages == {"Merge commit"}

(***************************************************************************)
(* Python values.                                                          *)
(***************************************************************************)
\* None, for an Optional[Commit]
None == 0
\* None, for the Optional[Branch] held by head
NoHead == "<None>"
\* None, for a call that returns no Branch
NoBranch == "<None>"
\* for a call that returns no (nodes, edges) pair
NoGraph == <<>>

NoErr == [type |-> "", msg |-> ""]
\* Faulty variant of ErrNotInit: raised as a ValueError like the other errors.
ErrNotInit_as_ValueError ==
    [type |-> "ValueError", msg |-> "Repo is not initialized"]
ErrNotInit == [type |-> "RuntimeError", msg |-> "Repo is not initialized"]
ErrExists == [type |-> "ValueError", msg |-> "Branch already exists"]
ErrNoBranch == [type |-> "ValueError", msg |-> "Branch does not exist"]
ErrNoCommits == [type |-> "ValueError", msg |-> "Cannot merge: branch has no commits"]

Range(s) == {s[i] : i \in DOMAIN s}

\* d[k] = v on a dict
Put(d, k, v) == [x \in (DOMAIN d) \cup {k} |-> IF x = k THEN v ELSE d[x]]

\* the insertion order of a dict after d[k] = v
PutOrder(order, k) == IF k \in Range(order) THEN order ELSE Append(order, k)

\* Commit(hash=..., message=..., parents=...)
Commit(hash, message, parents) ==
    [hash |-> hash, message |-> message, parents |-> parents]

(***************************************************************************)
(* How a call ends.                                                        *)
(***************************************************************************)
\* The record of a call.  Two of its fields are taken when the call begins:
\* before, the commit of the head branch (None without a head), and
\* after_branch, whether the call before it was a successful branch(name)
\* with the same name argument.  graph is the pair to_graph returns.
Call(op, name, message, err, ret, ret_branch) ==
    [message |-> message, op |-> op, name |-> name,
     err |-> err, ret |-> ret, ret_branch |-> ret_branch,
     graph |-> NoGraph,
     before |-> IF head = NoHead THEN None ELSE branches[head],
     after_branch |-> (op # "__init__" /\ last.op = "branch"
                       /\ last.err = NoErr /\ last.name = name)]

\* Faulty variant of build_timeline_raised: the exception is caught and the
\* loop goes on.
build_timeline_swallows ==
    /\ pc' = "snapshot"
    /\ UNCHANGED <<commands, snapshots, command_texts, timeline, applied,
                   index, nav, draws, drawn>>

\* method(**cmd.params) raised: nothing in build_timeline catches it, the
\* call ends, its locals go with it and nothing is returned
build_timeline_raised ==
    /\ pc' = "raise"
    /\ snapshots' = <<>>
    /\ command_texts' = <<>>
    /\ UNCHANGED <<commands, timeline, applied, index, nav, draws, drawn>>

\* method(**cmd.params) returned: on to line 25
build_timeline_returned ==
    /\ pc' = "snapshot"
    /\ applied' = applied + 1
    /\ UNCHANGED <<commands, snapshots, command_texts, timeline,
                   index, nav, draws, drawn>>

\* Faulty variant of GitSimApp_raised: the method goes on to _refresh.
GitSimApp_refreshes_anyway ==
    /\ pc' = "_refresh"
    /\ draws' = 0
    /\ UNCHANGED <<commands, snapshots, command_texts, timeline, applied,
                   index, nav, drawn>>

\* self.repo.<operation>(...) raised: the method of GitSimApp ends there,
\* having made no draw call
GitSimApp_raised ==
    /\ draws' = 0
    /\ UNCHANGED <<pc, commands, snapshots, command_texts, timeline, applied,
                   index, nav, drawn>>

\* self.repo.<operation>(...) returned: on to self._refresh(show=show)
GitSimApp_returned ==
    /\ pc' = "_refresh"
    /\ draws' = 0
    /\ UNCHANGED <<commands, snapshots, command_texts, timeline, applied,
                   index, nav, drawn>>

\* where a raise of Repo goes
RaiseTo ==
    CASE pc = "build_timeline" -> build_timeline_raised
      [] pc = "GitSimApp" -> GitSimApp_raised
      [] OTHER -> UNCHANGED callerVars

\* where a return of Repo goes
ReturnTo ==
    CASE pc = "build_timeline" -> build_timeline_returned
      [] pc = "GitSimApp" -> GitSimApp_returned
      [] OTHER -> UNCHANGED callerVars

\* raise: nothing was assigned before any raise statement of Repo
Raise(op, name, message, err) ==
    /\ last' = Call(op, name, message, err, None, NoBranch)
    /\ UNCHANGED repoVars
    /\ UNCHANGED layoutVars
    /\ RaiseTo

Return(op, name, message, ret, ret_branch) ==
    /\ last' = Call(op, name, message, NoErr, ret, ret_branch)
    /\ UNCHANGED layoutVars
    /\ ReturnTo

(***************************************************************************)
(* Repo.__init__                                                           *)
(***************************************************************************)
\* a new Repo, a new LayoutEngine
Constructed ==
    /\ commits = <<>>
    /\ branches = <<>>
    /\ branch_order = <<>>
    /\ head = NoHead
    /\ next_id = 1
    /\ last = Call("__init__", "", "", NoErr, None, NoBranch)
    /\ node_coords = <<>>
    /\ layout_nodes = <<>>
    /\ layout_edges = <<>>
    /\ vis_coords = <<>>
    /\ shown = <<>>

\* no build_timeline call, no viewer, nothing drawn
NoCaller ==
    /\ commands = <<>>
    /\ snapshots = <<>>
    /\ command_texts = <<>>
    /\ timeline = <<>>
    /\ applied = 0
    /\ index = 0
    /\ nav = ""
    /\ draws = 0
    /\ drawn = <<>>

Init ==
    /\ Constructed
    /\ pc = "Repo"
    /\ NoCaller

(***************************************************************************)
(* Repo.init                                                               *)
(***************************************************************************)
\* Faulty variant of init: main is created again on an initialized graph.
init_resets ==
    /\ branches' = Put(branches, "main", None)
    /\ branch_order' = PutOrder(branch_order, "main")
    /\ head' = "main"
    /\ UNCHANGED <<commits, next_id>>
    /\ Return("init", "", "", None, NoBranch)

\* Faulty variant of init: main is created but head is not set.
init_without_head ==
    IF head # NoHead \/ DOMAIN branches # {}
    THEN /\ Return("init", "", "", None, NoBranch)
         /\ UNCHANGED repoVars
    ELSE /\ branches' = Put(branches, "main", None)
         /\ branch_order' = PutOrder(branch_order, "main")
         /\ UNCHANGED <<commits, head, next_id>>
         /\ Return("init", "", "", None, NoBranch)

init ==
    IF head # NoHead \/ DOMAIN branches # {}
    THEN /\ Return("init", "", "", None, NoBranch)
         /\ UNCHANGED repoVars
    ELSE /\ branches' = Put(branches, "main", None)
         /\ branch_order' = PutOrder(branch_order, "main")
         /\ head' = "main"
         /\ UNCHANGED <<commits, next_id>>
         /\ Return("init", "", "", None, NoBranch)

(***************************************************************************)
(* Repo.commit                                                             *)
(***************************************************************************)
\* Faulty variant of commit_parents: the previous commit is listed twice.
commit_parents_twice(parent_commit) ==
    IF parent_commit # None THEN <<parent_commit, parent_commit>> ELSE <<>>

\* Faulty variant of commit_parents: the previous commit is forgotten.
commit_parents_none(parent_commit) == <<>>

commit_parents(parent_commit) ==
    IF parent_commit # None THEN <<parent_commit>> ELSE <<>>

\* Faulty variant of commit: the id counter is not advanced.
commit_reuses_id(message) ==
    IF head = NoHead
    THEN Raise("commit", "", message, ErrNotInit)
    ELSE LET parent_commit == branches[head]
             parents == commit_parents(parent_commit)
             commit_hash == next_id
             new_commit == Commit(commit_hash, message, parents)
         IN /\ next_id <= MaxCommits
            /\ commits' = Put(commits, commit_hash, new_commit)
            /\ branches' = [branches EXCEPT ![head] = new_commit.hash]
            /\ UNCHANGED <<branch_order, head, next_id>>
            /\ Return("commit", "", message, new_commit.hash, NoBranch)

commit(message) ==
    IF head = NoHead
    THEN Raise("commit", "", message, ErrNotInit)
    ELSE LET parent_commit == branches[head]
             parents == commit_parents(parent_commit)
             commit_hash == next_id
             new_commit == Commit(commit_hash, message, parents)
         IN /\ next_id <= MaxCommits
            /\ next_id' = next_id + 1
            /\ commits' = Put(commits, commit_hash, new_commit)
            /\ branches' = [branches EXCEPT ![head] = new_commit.hash]
            /\ UNCHANGED <<branch_order, head>>
            /\ Return("commit", "", message, new_commit.hash, NoBranch)

(***************************************************************************)
(* Repo.branch                                                             *)
(***************************************************************************)
\* Faulty variant of branch_commit: the new branch starts without a commit.
branch_commit_none == None

\* the commit argument of Branch(name=name, commit=self.head.commit)
branch_commit == branches[head]

\* Faulty variant of branch: the new branch also becomes the head.
branch_switches(name) ==
    IF head = NoHead
    THEN Raise("branch", name, "", ErrNotInit)
    ELSE IF name \in DOMAIN branches
    THEN Raise("branch", name, "", ErrExists)
    ELSE /\ branches' = Put(branches, name, branch_commit)
         /\ branch_order' = PutOrder(branch_order, name)
         /\ head' = name
         /\ UNCHANGED <<commits, next_id>>
         /\ Return("branch", name, "", None, name)

branch(name) ==
    IF head = NoHead
    THEN Raise("branch", name, "", ErrNotInit)
    ELSE IF name \in DOMAIN branches
    THEN Raise("branch", name, "", ErrExists)
    ELSE /\ branches' = Put(branches, name, branch_commit)
         /\ branch_order' = PutOrder(branch_order, name)
         /\ UNCHANGED <<commits, head, next_id>>
         /\ Return("branch", name, "", None, name)

(***************************************************************************)
(* Repo.checkout                                                           *)
(***************************************************************************)
\* Faulty variant of checkout: an unknown name is ignored without an error.
checkout_silent(name) ==
    IF name \notin DOMAIN branches
    THEN /\ UNCHANGED repoVars
         /\ Return("checkout", name, "", None, NoBranch)
    ELSE /\ head' = name
         /\ UNCHANGED <<commits, branches, branch_order, next_id>>
         /\ Return("checkout", name, "", None, NoBranch)

checkout(name) ==
    IF name \notin DOMAIN branches
    THEN Raise("checkout", name, "", ErrNoBranch)
    ELSE /\ head' = name
         /\ UNCHANGED <<commits, branches, branch_order, next_id>>
         /\ Return("checkout", name, "", None, NoBranch)

(***************************************************************************)
(* Repo.to_graph                                                           *)
(***************************************************************************)
\* str(n) of a counter value: the hash of a commit as it is written in a
\* node id
str(n) == <<"1", "2", "3", "4", "5", "6", "7", "8", "9">>[n]

\* int(s), as in sorted(commit_ids, key=int)
int(s) == CHOOSE n \in 1..9 : str(n) = s

GraphNode(id, kind, label) == [id |-> id, kind |-> kind, label |-> label]
GraphEdge(source, target, kind) == [kind |-> kind, source |-> source, target |-> target]

RECURSIVE Ascending(_)
Ascending(S) ==
    IF S = {} THEN <<>>
    ELSE LET m == CHOOSE x \in S : \A y \in S : x <= y
         IN <<m>> \o Ascending(S \ {m})

\* the keys of self.commits in the order of the dict, which is the order the
\* commits were registered in: every new commit has the largest hash so far
commit_order == Ascending(DOMAIN commits)

RECURSIVE Concat(_)
Concat(ss) == IF ss = <<>> THEN <<>> ELSE Head(ss) \o Concat(Tail(ss))

to_graph_head_nodes ==
    IF head # NoHead THEN <<GraphNode("HEAD", "head", "HEAD")>> ELSE <<>>

to_graph_head_edges ==
    IF head # NoHead THEN <<GraphEdge("HEAD", head, "points_to")>> ELSE <<>>

\* Faulty variant of to_graph_branch_nodes: a branch without a commit gets no
\* node.
to_graph_branch_nodes_set_only ==
    Concat([i \in DOMAIN branch_order |->
        IF branches[branch_order[i]] # None
        THEN <<GraphNode(branch_order[i], "branch", branch_order[i])>>
        ELSE <<>>])

to_graph_branch_nodes ==
    [i \in DOMAIN branch_order |->
        GraphNode(branch_order[i], "branch", branch_order[i])]

to_graph_branch_edges ==
    Concat([i \in DOMAIN branch_order |->
        IF branches[branch_order[i]] # None
        THEN <<GraphEdge(branch_order[i],
                         str(commits[branches[branch_order[i]]].hash),
                         "points_to")>>
        ELSE <<>>])

to_graph_commit_nodes ==
    [i \in DOMAIN commit_order |->
        GraphNode(str(commits[commit_order[i]].hash), "commit",
                  str(commits[commit_order[i]].hash))]

to_graph_commit_edges ==
    Concat([i \in DOMAIN commit_order |->
        LET c == commits[commit_order[i]]
        IN [j \in DOMAIN c.parents |->
               GraphEdge(str(c.hash), str(commits[c.parents[j]].hash), "parent")]])

to_graph_nodes == to_graph_head_nodes \o to_graph_branch_nodes \o to_graph_commit_nodes
to_graph_edges == to_graph_head_edges \o to_graph_branch_edges \o to_graph_commit_edges

\* Faulty variant of to_graph: the branch mapping is rebuilt, newest first.
to_graph_rebuilds_branches ==
    /\ last' = [Call("to_graph", "", "", NoErr, None, NoBranch)
                    EXCEPT !.graph = <<to_graph_nodes, to_graph_edges>>]
    /\ branch_order' = [i \in DOMAIN branch_order |->
                            branch_order[Len(branch_order) + 1 - i]]
    /\ UNCHANGED <<commits, branches, head, next_id>>
    /\ UNCHANGED layoutVars
    /\ ReturnTo

to_graph ==
    /\ last' = [Call("to_graph", "", "", NoErr, None, NoBranch)
                    EXCEPT !.graph = <<to_graph_nodes, to_graph_edges>>]
    /\ UNCHANGED repoVars
    /\ UNCHANGED layoutVars
    /\ ReturnTo

(***************************************************************************)
(* Repo.merge                                                              *)
(***************************************************************************)
\* the loop of is_ancestor: queue is a list used as a stack (queue.pop()
\* takes the last element), visited the set of hashes already expanded
RECURSIVE is_ancestor_loop(_, _, _)
is_ancestor_loop(queue, visited, potential_ancestor) ==
    IF queue = <<>>
    THEN FALSE
    ELSE LET c == queue[Len(queue)]
             popped == SubSeq(queue, 1, Len(queue) - 1)
         IN IF commits[c].hash \in visited
            THEN is_ancestor_loop(popped, visited, potential_ancestor)
            ELSE IF commits[c].hash = commits[potential_ancestor].hash
            THEN TRUE
            ELSE is_ancestor_loop(popped \o commits[c].parents,
                                  visited \cup {commits[c].hash},
                                  potential_ancestor)

\* Faulty variant of is_ancestor: the two arguments taken the other way round.
is_ancestor_swapped(cmt, potential_ancestor) ==
    is_ancestor_loop(<<potential_ancestor>>, {}, cmt)

is_ancestor(cmt, potential_ancestor) ==
    is_ancestor_loop(<<cmt>>, {}, potential_ancestor)

\* Faulty variant of is_ancestor_run: visited.add is left out.
RECURSIVE is_ancestor_run_forgetful(_, _, _, _, _, _)
is_ancestor_run_forgetful(queue, visited, potential_ancestor, expanded, iterations, fuel) ==
    IF queue = <<>>
    THEN [finished |-> TRUE, result |-> FALSE,
          expanded |-> expanded, iterations |-> iterations]
    ELSE IF fuel = 0
    THEN [finished |-> FALSE, result |-> FALSE,
          expanded |-> expanded, iterations |-> iterations]
    ELSE LET c == queue[Len(queue)]
             popped == SubSeq(queue, 1, Len(queue) - 1)
         IN IF commits[c].hash \in visited
            THEN is_ancestor_run_forgetful(popped, visited, potential_ancestor,
                                           expanded, iterations + 1, fuel - 1)
            ELSE IF commits[c].hash = commits[potential_ancestor].hash
            THEN [finished |-> TRUE, result |-> TRUE,
                  expanded |-> Append(expanded, commits[c].hash),
                  iterations |-> iterations + 1]
            ELSE is_ancestor_run_forgetful(popped \o commits[c].parents,
                                           visited,
                                           potential_ancestor,
                                           Append(expanded, commits[c].hash),
                                           iterations + 1, fuel - 1)

\* The while loop of is_ancestor once more, this time stopped after fuel
\* iterations and keeping count: finished tells whether the loop ended,
\* expanded lists the hashes in the order of visited.add, iterations counts
\* the passes through the loop body.
RECURSIVE is_ancestor_run(_, _, _, _, _, _)
is_ancestor_run(queue, visited, potential_ancestor, expanded, iterations, fuel) ==
    IF queue = <<>>
    THEN [finished |-> TRUE, result |-> FALSE,
          expanded |-> expanded, iterations |-> iterations]
    ELSE IF fuel = 0
    THEN [finished |-> FALSE, result |-> FALSE,
          expanded |-> expanded, iterations |-> iterations]
    ELSE LET c == queue[Len(queue)]
             popped == SubSeq(queue, 1, Len(queue) - 1)
         IN IF commits[c].hash \in visited
            THEN is_ancestor_run(popped, visited, potential_ancestor,
                                 expanded, iterations + 1, fuel - 1)
            ELSE IF commits[c].hash = commits[potential_ancestor].hash
            THEN [finished |-> TRUE, result |-> TRUE,
                  expanded |-> Append(expanded, commits[c].hash),
                  iterations |-> iterations + 1]
            ELSE is_ancestor_run(popped \o commits[c].parents,
                                 visited \cup {commits[c].hash},
                                 potential_ancestor,
                                 Append(expanded, commits[c].hash),
                                 iterations + 1, fuel - 1)

\* Faulty variant of merge_parents: the target first.
merge_parents_swapped(current_commit, target_commit) ==
    <<target_commit, current_commit>>

\* Faulty variant of merge_parents: the merged commit is left out.
merge_parents_current_only(current_commit, target_commit) ==
    <<current_commit>>

\* parents=[current_commit, target_commit]
merge_parents(current_commit, target_commit) ==
    <<current_commit, target_commit>>

\* self.head.commit = target_commit; return target_commit
\* Faulty variant of merge_fast_forward: the merged branch is moved to the
\* head branch's commit, not the head branch to the merged one's.
merge_fast_forward_backwards(branch_name, message, target_commit) ==
    /\ branches' = [branches EXCEPT ![branch_name] = branches[head]]
    /\ UNCHANGED <<commits, branch_order, head, next_id>>
    /\ Return("merge", branch_name, message, target_commit, NoBranch)

merge_fast_forward(branch_name, message, target_commit) ==
    /\ branches' = [branches EXCEPT ![head] = target_commit]
    /\ UNCHANGED <<commits, branch_order, head, next_id>>
    /\ Return("merge", branch_name, message, target_commit, NoBranch)

\* Faulty variant of merge_same_commit: the merged branch becomes the head.
merge_same_commit_switches(branch_name, message, current_commit) ==
    /\ head' = branch_name
    /\ UNCHANGED <<commits, branches, branch_order, next_id>>
    /\ Return("merge", branch_name, message, current_commit, NoBranch)

\* return current_commit
merge_same_commit(branch_name, message, current_commit) ==
    /\ UNCHANGED repoVars
    /\ Return("merge", branch_name, message, current_commit, NoBranch)

\* Faulty variant of merge_commit: the new commit is not put in the registry.
merge_commit_unregistered(branch_name, message, current_commit, target_commit) ==
    LET merge_commit_hash == next_id
        new_commit == Commit(merge_commit_hash, message,
                             merge_parents(current_commit, target_commit))
    IN /\ next_id <= MaxCommits
       /\ next_id' = next_id + 1
       /\ branches' = [branches EXCEPT ![head] = new_commit.hash]
       /\ UNCHANGED <<commits, branch_order, head>>
       /\ Return("merge", branch_name, message, new_commit.hash, NoBranch)

\* the merge commit with two parents
merge_commit(branch_name, message, current_commit, target_commit) ==
    LET merge_commit_hash == next_id
        new_commit == Commit(merge_commit_hash, message,
                             merge_parents(current_commit, target_commit))
    IN /\ next_id <= MaxCommits
       /\ next_id' = next_id + 1
       /\ commits' = Put(commits, merge_commit_hash, new_commit)
       /\ branches' = [branches EXCEPT ![head] = new_commit.hash]
       /\ UNCHANGED <<branch_order, head>>
       /\ Return("merge", branch_name, message, new_commit.hash, NoBranch)

\* Faulty variant of merge: the empty head branch is handled before the
\* target branch is checked for a commit.
merge_empty_head_first(branch_name, message) ==
    IF head = NoHead
    THEN Raise("merge", branch_name, message, ErrNotInit)
    ELSE IF branch_name \notin DOMAIN branches
    THEN Raise("merge", branch_name, message, ErrNoBranch)
    ELSE LET current_commit == branches[head]
             target_commit == branches[branch_name]
         IN IF current_commit = None
            THEN merge_fast_forward(branch_name, message, target_commit)
            ELSE IF target_commit = None
            THEN Raise("merge", branch_name, message, ErrNoCommits)
            ELSE IF commits[current_commit].hash = commits[target_commit].hash
            THEN merge_same_commit(branch_name, message, current_commit)
            ELSE IF is_ancestor(target_commit, current_commit)
            THEN merge_fast_forward(branch_name, message, target_commit)
            ELSE merge_commit(branch_name, message, current_commit, target_commit)

merge(branch_name, message) ==
    IF head = NoHead
    THEN Raise("merge", branch_name, message, ErrNotInit)
    ELSE IF branch_name \notin DOMAIN branches
    THEN Raise("merge", branch_name, message, ErrNoBranch)
    ELSE LET current_commit == branches[head]
             target_commit == branches[branch_name]
         IN IF target_commit = None
            THEN Raise("merge", branch_name, message, ErrNoCommits)
            ELSE IF current_commit = None
            THEN merge_fast_forward(branch_name, message, target_commit)
            ELSE IF commits[current_commit].hash = commits[target_commit].hash
            THEN merge_same_commit(branch_name, message, current_commit)
            ELSE IF is_ancestor(target_commit, current_commit)
            THEN merge_fast_forward(branch_name, message, target_commit)
            ELSE merge_commit(branch_name, message, current_commit, target_commit)

(***************************************************************************)
(* The callers of Repo: any method, any argument, in any order.            *)
(***************************************************************************)
Next ==
    \/ init
    \/ \E message \in Messages : commit(message)
    \/ \E name \in Names : branch(name)
    \/ \E name \in Names : checkout(name)
    \/ \E branch_name \in Names, message \in MergeMessages : merge(branch_name, message)
    \/ to_graph

Spec == Init /\ [][Next]_vars

(***************************************************************************)
(* LayoutEngine (src/src/layout_engine.py)                                 *)
(*                                                                         *)
(* A coordinate is a Python float.  Every coordinate the engine computes   *)
(* is a sum of whole numbers and of the three class constants below, so it *)
(* is a decimal number with one fractional digit; it is modelled by that   *)
(* decimal value counted in tenths (1.5 is 15).  The rounding of binary    *)
(* floating point is not modelled.                                         *)
(***************************************************************************)
BRANCH_COLUMN_OFFSET == 15
HEAD_COLUMN_OFFSET == 10
BRANCH_Z_STEP == 6

\* float(i)
float(i) == 10 * i

\* the branch names given to the engine, in the order of Python's str
StrOrder == <<"", "1", "dev", "main">>
LayoutNames == Range(StrOrder)
StrRank(s) == CHOOSE i \in DOMAIN StrOrder : StrOrder[i] = s

\* sorted(ids)
sorted(ids) == SortSeq(ids, LAMBDA a, b : StrRank(a) < StrRank(b))
\* sorted(ids, key=int)
sorted_by_int(ids) == SortSeq(ids, LAMBDA a, b : int(a) < int(b))

\* for i, k in enumerate(ids): coords[k] = values[i], i counted from 1
SetEach(coords, ids, values) ==
    [k \in (DOMAIN coords) \cup Range(ids) |->
        IF k \in Range(ids)
        THEN values[CHOOSE i \in DOMAIN ids :
                       ids[i] = k /\ \A j \in DOMAIN ids : ids[j] = k => j <= i]
        ELSE coords[k]]

Minimum(S) == CHOOSE x \in S : \A y \in S : x <= y
Maximum(S) == CHOOSE x \in S : \A y \in S : y <= x

\* [n.id for n in nodes if n.kind == kind]
split_nodes(nodes, kind) ==
    LET of_kind == SelectSeq(nodes, LAMBDA n : n.kind = kind)
    IN [i \in DOMAIN of_kind |-> of_kind[i].id]

\* the coords dict after the loop of _layout_commits
layout_commits(commit_ids) ==
    LET order == sorted_by_int(commit_ids)
    IN SetEach(<<>>, order, [i \in DOMAIN order |-> <<float(i - 1), 0, 0>>])

max_commit_x(commit_ids, coords) ==
    IF commit_ids # <<>>
    THEN Maximum({coords[commit_ids[i]][1] : i \in DOMAIN commit_ids})
    ELSE 0

branch_x(commit_ids, coords) == max_commit_x(commit_ids, coords) + BRANCH_COLUMN_OFFSET
head_x(commit_ids, coords) == branch_x(commit_ids, coords) + HEAD_COLUMN_OFFSET

\* the lookup is by node id alone: whatever node had the id at the call
\* before, its z is taken
restore_previous_branch_z(prev_coords, branch_ids) ==
    [bid \in {b \in Range(branch_ids) : b \in DOMAIN prev_coords} |->
        prev_coords[bid][3]]

layout_branches(prev_coords, branch_ids, bx, coords) ==
    LET previous_branch_z == restore_previous_branch_z(prev_coords, branch_ids)
        first_new_branch_z ==
            IF DOMAIN previous_branch_z # {}
            THEN Minimum({previous_branch_z[b] : b \in DOMAIN previous_branch_z})
                     - BRANCH_Z_STEP
            ELSE 0
        order == sorted(branch_ids)
        new_before(i) ==
            Cardinality({j \in 1..(i - 1) : order[j] \notin DOMAIN previous_branch_z})
        z(i) == IF order[i] \in DOMAIN previous_branch_z
                THEN previous_branch_z[order[i]]
                ELSE first_new_branch_z - BRANCH_Z_STEP * new_before(i)
    IN SetEach(coords, order, [i \in DOMAIN order |-> <<bx, 0, z(i)>>])

\* None is NoBranch
fallback_branch(branch_ids) ==
    IF "main" \in Range(branch_ids) THEN "main"
    ELSE IF branch_ids # <<>> THEN sorted(branch_ids)[1]
    ELSE NoBranch

detect_active_branch(branch_ids, head_ids, edges) ==
    IF head_ids = <<>> THEN fallback_branch(branch_ids)
    ELSE LET head_id == head_ids[1]
             hits == SelectSeq(edges, LAMBDA e :
                        /\ e.kind = "points_to"
                        /\ e.source = head_id
                        /\ e.target \in Range(branch_ids))
         IN IF hits # <<>> THEN hits[1].target ELSE fallback_branch(branch_ids)

\* not active_branch_id: None and the empty string are both false
not_active_branch_id(active_branch_id) ==
    active_branch_id = NoBranch \/ active_branch_id = ""

normalize_branch_column(branch_ids, active_branch_id, coords) ==
    IF not_active_branch_id(active_branch_id) THEN coords
    ELSE IF active_branch_id \notin DOMAIN coords THEN coords
    ELSE LET z_shift == 0 - coords[active_branch_id][3]
         IN [k \in DOMAIN coords |->
                IF k \in Range(branch_ids)
                THEN <<coords[k][1], coords[k][2], coords[k][3] + z_shift>>
                ELSE coords[k]]

layout_heads(head_ids, hx, coords) ==
    SetEach(coords, head_ids, [i \in DOMAIN head_ids |-> <<hx, 0, 0>>])

\* the coords dict compute_layout returns, prev_coords being _node_coords
layout(prev_coords, nodes, edges) ==
    LET commit_ids == split_nodes(nodes, "commit")
        branch_ids == split_nodes(nodes, "branch")
        head_ids == split_nodes(nodes, "head")
        coords1 == layout_commits(commit_ids)
        bx == branch_x(commit_ids, coords1)
        hx == head_x(commit_ids, coords1)
        coords2 == layout_branches(prev_coords, branch_ids, bx, coords1)
        active_branch_id == detect_active_branch(branch_ids, head_ids, edges)
        coords3 == normalize_branch_column(branch_ids, active_branch_id, coords2)
    IN layout_heads(head_ids, hx, coords3)

\* The branch column can sink without limit over a run of calls; a call
\* that would put a node further than MaxDepth steps from z = 0 is left out.
MaxDepth == 2

WithinDepth(coords) ==
    \A k \in DOMAIN coords :
        /\ coords[k][3] <= MaxDepth * BRANCH_Z_STEP
        /\ 0 - coords[k][3] <= MaxDepth * BRANCH_Z_STEP

compute_layout(nodes, edges) ==
    LET coords == layout(node_coords, nodes, edges)
    IN /\ WithinDepth(coords)
       /\ node_coords' = coords
       /\ layout_nodes' = nodes
       /\ layout_edges' = edges
       /\ UNCHANGED <<repoVars, last>>
       /\ UNCHANGED callerVars

(***************************************************************************)
(* The callers of LayoutEngine.  The graphs they pass have the shape of    *)
(* Repo.to_graph's result (the HEAD node and its edge, the branches in     *)
(* the order of their creation, a chain of commits, every branch at the    *)
(* newest commit); the HEAD edge alone, or the HEAD node with it, may be   *)
(* missing.                                                                *)
(***************************************************************************)
MaxLayoutCommits == 1

\* the order in which the branches were created
CreationOrder == <<"main", "dev", "1", "">>

\* the branch lists: any of the branches, in the order of their creation
BranchLists ==
    {SelectSeq(CreationOrder, LAMBDA b : b \in S) : S \in SUBSET LayoutNames}

NoHeadNode == "<no HEAD node>"
NoHeadEdge == "<no HEAD edge>"

graph_nodes(bs, k, target) ==
    (IF target = NoHeadNode THEN <<>> ELSE <<GraphNode("HEAD", "head", "HEAD")>>)
    \o [i \in DOMAIN bs |-> GraphNode(bs[i], "branch", bs[i])]
    \o [i \in 1..k |-> GraphNode(str(i), "commit", str(i))]

graph_edges(bs, k, target) ==
    (IF target \in {NoHeadNode, NoHeadEdge} THEN <<>>
     ELSE <<GraphEdge("HEAD", target, "points_to")>>)
    \o (IF k = 0 THEN <<>>
        ELSE [i \in DOMAIN bs |-> GraphEdge(bs[i], str(k), "points_to")])
    \o [i \in 1..(k - 1) |-> GraphEdge(str(i + 1), str(i), "parent")]

NextLayout ==
    \E bs \in BranchLists, k \in 0..MaxLayoutCommits :
        \E target \in Range(bs) \cup {NoHeadNode, NoHeadEdge} :
            /\ compute_layout(graph_nodes(bs, k, target), graph_edges(bs, k, target))
            /\ UNCHANGED <<vis_coords, shown>>

SpecLayout == Init /\ [][NextLayout]_vars

(***************************************************************************)
(* GraphVisualizer.compute_layout (src/src/visualizer.py), the layout the  *)
(* draw method runs.  It is one method, translated here statement by       *)
(* statement; coordinates are counted in tenths as above.                  *)
(***************************************************************************)
\* the coords dict the method returns, prev_coords being self._node_coords
GraphVisualizer_layout(prev_coords, nodes, edges) ==
    LET commit_ids == split_nodes(nodes, "commit")
        branch_ids == split_nodes(nodes, "branch")
        head_ids == split_nodes(nodes, "head")
        \* lines 45-46
        by_int == sorted_by_int(commit_ids)
        coords1 == SetEach(<<>>, by_int, [i \in DOMAIN by_int |-> <<float(i - 1), 0, 0>>])
        \* lines 49-55
        max_x == IF commit_ids # <<>>
                 THEN Maximum({coords1[commit_ids[i]][1] : i \in DOMAIN commit_ids})
                 ELSE 0
        bx == max_x + 15
        hx == bx + 10
        \* lines 58-62
        old_branch_z == [bid \in {b \in Range(branch_ids) : b \in DOMAIN prev_coords} |->
                            prev_coords[bid][3]]
        \* lines 64-72
        branch_z_step == 6
        new_z_first == IF DOMAIN old_branch_z # {}
                       THEN Minimum({old_branch_z[b] : b \in DOMAIN old_branch_z})
                                - branch_z_step
                       ELSE 0
        \* lines 75-81
        by_name == sorted(branch_ids)
        new_before(i) ==
            Cardinality({j \in 1..(i - 1) : by_name[j] \notin DOMAIN old_branch_z})
        z(i) == IF by_name[i] \in DOMAIN old_branch_z
                THEN old_branch_z[by_name[i]]
                ELSE new_z_first - branch_z_step * new_before(i)
        coords2 == SetEach(coords1, by_name, [i \in DOMAIN by_name |-> <<bx, 0, z(i)>>])
        \* lines 84-94
        found == IF head_ids # <<>>
                 THEN SelectSeq(edges, LAMBDA e :
                          /\ e.kind = "points_to"
                          /\ e.source = head_ids[1]
                          /\ e.target \in Range(branch_ids))
                 ELSE <<>>
        pointed == IF found # <<>> THEN found[1].target ELSE NoBranch
        \* lines 97-101
        active_branch_id ==
            IF pointed # NoBranch THEN pointed
            ELSE IF "main" \in Range(branch_ids) THEN "main"
            ELSE IF branch_ids # <<>> THEN sorted(branch_ids)[1]
            ELSE NoBranch
        \* lines 104-109: the test is "is not None"
        coords3 ==
            IF active_branch_id # NoBranch /\ active_branch_id \in DOMAIN coords2
            THEN LET shift == 0 - coords2[active_branch_id][3]
                 IN [k \in DOMAIN coords2 |->
                        IF k \in Range(branch_ids)
                        THEN <<coords2[k][1], coords2[k][2], coords2[k][3] + shift>>
                        ELSE coords2[k]]
            ELSE coords2
    \* lines 112-113
    IN SetEach(coords3, head_ids, [i \in DOMAIN head_ids |-> <<hx, 0, 0>>])

\* lines 115-116; the same limit on the depth of the column as above
GraphVisualizer_compute_layout(nodes, edges) ==
    LET coords == GraphVisualizer_layout(vis_coords, nodes, edges)
    IN /\ WithinDepth(coords)
       /\ vis_coords' = coords

(***************************************************************************)
(* A LayoutEngine and a GraphVisualizer, both new, that are given the same *)
(* graph at every call.                                                    *)
(***************************************************************************)
NextBoth ==
    \E bs \in BranchLists, k \in 0..MaxLayoutCommits :
        \E target \in Range(bs) \cup {NoHeadNode, NoHeadEdge} :
            /\ compute_layout(graph_nodes(bs, k, target), graph_edges(bs, k, target))
            /\ GraphVisualizer_compute_layout(graph_nodes(bs, k, target),
                                              graph_edges(bs, k, target))
            /\ UNCHANGED shown

SpecBoth == Init /\ [][NextBoth]_vars

(***************************************************************************)
(* Command and format_command (src/src/command.py)                         *)
(*                                                                         *)
(* params is a dict: the list of its (key, value) pairs in their order.    *)
(***************************************************************************)
Command(name, params) == [name |-> name, params |-> params]

Keys(params) == {params[i][1] : i \in DOMAIN params}
Value(params, k) == params[CHOOSE i \in DOMAIN params : params[i][1] = k][2]

\* repr of a str
repr(v) == "'" \o v \o "'"

\* ", ".join(f"{k}={v!r}" for k, v in cmd.params.items())
RECURSIVE params_str(_)
params_str(params) ==
    IF params = <<>> THEN ""
    ELSE params[1][1] \o "=" \o repr(params[1][2])
         \o (IF Len(params) = 1 THEN "" ELSE ", " \o params_str(Tail(params)))

format_command(cmd) ==
    IF cmd.params = <<>>
    THEN cmd.name \o "()"
    ELSE cmd.name \o "(" \o params_str(cmd.params) \o ")"

(***************************************************************************)
(* build_timeline (src/src/time_line.py)                                   *)
(***************************************************************************)
\* the commands a list is made of: the five operations, one with a
\* parameter missing, and three names that are no operation (a method, a
\* field and a name Repo does not have)
TimelineCommands ==
    {Command("init", <<>>),
     Command("commit", <<<<"message", "c1">>>>),
     Command("commit", <<>>),
     Command("branch", <<<<"name", "dev">>>>),
     Command("checkout", <<<<"name", "dev">>>>),
     Command("merge", <<<<"branch_name", "dev">>>>),
     Command("to_graph", <<>>),
     Command("branches", <<>>),
     Command("undo", <<>>)}

MaxCommands == 5

CommandLists == UNION {[1..n -> TimelineCommands] : n \in 0..MaxCommands}

\* the attributes of a Repo that getattr finds: its methods and its fields
\* (the attributes every Python object has are left out)
RepoMethods == {"init", "commit", "branch", "checkout", "to_graph", "merge"}
RepoFields == {"commits", "branches", "head", "_next_id"}

\* the parameters of a method without a default, and those with one
Required(name) ==
    CASE name = "commit" -> {"message"}
      [] name \in {"branch", "checkout"} -> {"name"}
      [] name = "merge" -> {"branch_name"}
      [] OTHER -> {}
Optional(name) == IF name = "merge" THEN {"message"} ELSE {}

\* method(**params) can be called
Binds(cmd) ==
    /\ Required(cmd.name) \subseteq Keys(cmd.params)
    /\ Keys(cmd.params) \subseteq Required(cmd.name) \cup Optional(cmd.name)

ErrAttribute == [type |-> "AttributeError", msg |-> "'Repo' object has no attribute"]
ErrNotCallable == [type |-> "TypeError", msg |-> "object is not callable"]
ErrArguments == [type |-> "TypeError", msg |-> "missing or unexpected argument"]

\* method = getattr(repo, cmd.name); method(**cmd.params)
apply(cmd) ==
    IF cmd.name \notin RepoMethods \cup RepoFields
    THEN Raise(cmd.name, "", "", ErrAttribute)
    ELSE IF cmd.name \in RepoFields
    THEN Raise(cmd.name, "", "", ErrNotCallable)
    ELSE IF ~Binds(cmd)
    THEN Raise(cmd.name, "", "", ErrArguments)
    ELSE CASE cmd.name = "init" -> init
           [] cmd.name = "commit" -> commit(Value(cmd.params, "message"))
           [] cmd.name = "branch" -> branch(Value(cmd.params, "name"))
           [] cmd.name = "checkout" -> checkout(Value(cmd.params, "name"))
           [] cmd.name = "merge" ->
                  merge(Value(cmd.params, "branch_name"),
                        IF "message" \in Keys(cmd.params)
                        THEN Value(cmd.params, "message")
                        ELSE "Merge commit")
           [] cmd.name = "to_graph" -> to_graph

\* lines 23-24 of one pass through the loop
build_timeline_call ==
    /\ pc = "build_timeline"
    /\ Len(snapshots) < Len(commands)
    /\ apply(commands[Len(snapshots) + 1])

\* Faulty variant of build_timeline_snapshot: the snapshots are one list
\* that is kept up to date, so every entry shows the graph as it is now.
build_timeline_snapshot_shared ==
    /\ pc = "snapshot"
    /\ snapshots' = [i \in 1..(Len(snapshots) + 1) |-> <<to_graph_nodes, to_graph_edges>>]
    /\ command_texts' = Append(command_texts, format_command(commands[Len(snapshots) + 1]))
    /\ pc' = "build_timeline"
    /\ UNCHANGED <<repoVars, last, layoutVars>>
    /\ UNCHANGED <<commands, timeline, applied, index, nav, draws, drawn>>

\* lines 25-26 of one pass through the loop
build_timeline_snapshot ==
    /\ pc = "snapshot"
    /\ snapshots' = Append(snapshots, <<to_graph_nodes, to_graph_edges>>)
    /\ command_texts' = Append(command_texts, format_command(commands[Len(snapshots) + 1]))
    /\ pc' = "build_timeline"
    /\ UNCHANGED <<repoVars, last, layoutVars>>
    /\ UNCHANGED <<commands, timeline, applied, index, nav, draws, drawn>>

Timeline(snaps, cmds, texts) ==
    [commands |-> cmds, snapshots |-> snaps, command_texts |-> texts]

\* line 28
build_timeline_return ==
    /\ pc = "build_timeline"
    /\ Len(snapshots) = Len(commands)
    /\ timeline' = <<Timeline(snapshots, commands, command_texts)>>
    /\ snapshots' = <<>>
    /\ command_texts' = <<>>
    /\ pc' = "Timeline"
    /\ UNCHANGED <<repoVars, last, layoutVars>>
    /\ UNCHANGED <<commands, applied, index, nav, draws, drawn>>

(***************************************************************************)
(* TimelineViewer (src/src/time_line.py)                                   *)
(***************************************************************************)
TimelineViewer_init ==
    /\ pc = "Timeline"
    /\ pc' = "TimelineViewer"
    /\ index' = 0
    /\ nav' = "__init__"
    /\ draws' = 0
    /\ UNCHANGED <<repoVars, last, layoutVars>>
    /\ UNCHANGED <<commands, snapshots, command_texts, timeline, applied, drawn>>

total_steps == Len(timeline[1].snapshots)

\* show_current, for the index the caller has just set (index counts from
\* 0, a sequence from 1); a draw call with show=False
show_current(new_index) ==
    LET snapshot == timeline[1].snapshots[new_index + 1]
        coords == GraphVisualizer_layout(vis_coords, snapshot[1], snapshot[2])
    IN /\ drawn' = <<snapshot[1], snapshot[2], FALSE>>
       /\ vis_coords' = coords
       /\ shown' = IF new_index \in DOMAIN shown THEN shown
                   ELSE [i \in DOMAIN shown \cup {new_index} |->
                            IF i = new_index THEN coords ELSE shown[i]]

\* Faulty variant of on_right: no test for the last index.
on_right_unguarded ==
    /\ pc = "TimelineViewer"
    /\ nav' = "on_right"
    /\ index' = index + 1
    /\ draws' = 0
    /\ UNCHANGED drawn
    /\ UNCHANGED <<repoVars, last, layoutVars>>
    /\ UNCHANGED <<pc, commands, snapshots, command_texts, timeline, applied>>

on_right ==
    /\ pc = "TimelineViewer"
    /\ nav' = "on_right"
    /\ IF index >= total_steps - 1
       THEN /\ draws' = 0
            /\ UNCHANGED <<index, drawn, vis_coords, shown>>
       ELSE /\ index' = index + 1
            /\ show_current(index + 1)
            /\ draws' = 1
    /\ UNCHANGED <<repoVars, last, node_coords, layout_nodes, layout_edges>>
    /\ UNCHANGED <<pc, commands, snapshots, command_texts, timeline, applied>>

on_left ==
    /\ pc = "TimelineViewer"
    /\ nav' = "on_left"
    /\ IF index <= 0
       THEN /\ draws' = 0
            /\ UNCHANGED <<index, drawn, vis_coords, shown>>
       ELSE /\ index' = index - 1
            /\ show_current(index - 1)
            /\ draws' = 1
    /\ UNCHANGED <<repoVars, last, node_coords, layout_nodes, layout_edges>>
    /\ UNCHANGED <<pc, commands, snapshots, command_texts, timeline, applied>>

(***************************************************************************)
(* A caller of build_timeline, on a new Repo and any command list, who     *)
(* then opens a viewer on the Timeline and presses the arrow keys.         *)
(***************************************************************************)
InitTimeline ==
    /\ Constructed
    /\ pc = "build_timeline"
    /\ commands \in CommandLists
    /\ snapshots = <<>>
    /\ command_texts = <<>>
    /\ timeline = <<>>
    /\ applied = 0
    /\ index = 0
    /\ nav = ""
    /\ draws = 0
    /\ drawn = <<>>

NextTimeline ==
    \/ build_timeline_call
    \/ build_timeline_snapshot
    \/ build_timeline_return
    \/ TimelineViewer_init
    \/ on_right
    \/ on_left

SpecTimeline == InitTimeline /\ [][NextTimeline]_vars

(***************************************************************************)
(* GitSimApp (src/src/app.py): a Repo and a visualizer.  A method of the   *)
(* app is the call of the Repo's method and then self._refresh; it runs    *)
(* in two steps, and between them (pc = "_refresh") no other method can    *)
(* begin.  An exception of the Repo leaves the method before _refresh.     *)
(***************************************************************************)
GitSimApp_init ==
    /\ pc = "GitSimApp"
    /\ init

GitSimApp_commit(message) ==
    /\ pc = "GitSimApp"
    /\ commit(message)

GitSimApp_branch(name) ==
    /\ pc = "GitSimApp"
    /\ branch(name)

GitSimApp_checkout(name) ==
    /\ pc = "GitSimApp"
    /\ checkout(name)

GitSimApp_merge(branch_name, message) ==
    /\ pc = "GitSimApp"
    /\ merge(branch_name, message)

\* _refresh, the last statement of each method: to_graph on the repo as the
\* operation left it and one draw call, always with show=True; then the
\* method returns
_refresh ==
    /\ pc = "_refresh"
    /\ drawn' = <<to_graph_nodes, to_graph_edges, TRUE>>
    /\ draws' = draws + 1
    /\ pc' = "GitSimApp"
    /\ UNCHANGED <<repoVars, last, layoutVars>>
    /\ UNCHANGED <<commands, snapshots, command_texts, timeline, applied,
                   index, nav>>

\* GitSimApp.__init__: a new Repo, nothing drawn yet
InitApp ==
    /\ Constructed
    /\ pc = "GitSimApp"
    /\ NoCaller

NextApp ==
    \/ GitSimApp_init
    \/ \E message \in Messages : GitSimApp_commit(message)
    \/ \E name \in Names : GitSimApp_branch(name)
    \/ \E name \in Names : GitSimApp_checkout(name)
    \/ \E branch_name \in Names, message \in MergeMessages :
           GitSimApp_merge(branch_name, message)
    \/ _refresh

SpecApp == InitApp /\ [][NextApp]_vars

(***************************************************************************)
(* Properties.                                                             *)
(*                                                                         *)
(* A property of one call is an action property: it reads the state the    *)
(* call begins in (unprimed), recognises the call by the record it leaves  *)
(* in last' and states the call's result and the state it ends in.         *)
(***************************************************************************)
\* the commits reachable from c through parent links in registry cs, c included
RECURSIVE Ancestors(_, _)
Ancestors(cs, c) ==
    {c} \cup UNION {Ancestors(cs, cs[c].parents[i]) : i \in DOMAIN cs[c].parents}

ProperAncestor(cs, a, c) == a # c /\ a \in Ancestors(cs, c)

Initialized == head # NoHead

Called(op, name) == last'.op = op /\ last'.name = name

Succeeded == last'.err.type = ""
IsNotInitialized(e) == e.type = "RuntimeError" /\ e.msg = "Repo is not initialized"
IsAlreadyExists(e) == e.type = "ValueError" /\ e.msg = "Branch already exists"
IsNotFound(e) == e.type = "ValueError" /\ e.msg = "Branch does not exist"
IsEmptyBranch(e) == e.type = "ValueError" /\ e.msg = "Cannot merge: branch has no commits"

\* the registry gains exactly the commit c, under a hash not in use before
RegistersOnly(c) ==
    /\ c.hash \notin DOMAIN commits
    /\ DOMAIN commits' = DOMAIN commits \cup {c.hash}
    /\ commits'[c.hash] = c
    /\ \A h \in DOMAIN commits : commits'[h] = commits[h]

\* the head branch points at h; head and every other branch are as before
OnlyHeadBranchMoves(h) ==
    /\ head' = head
    /\ branch_order' = branch_order
    /\ DOMAIN branches' = DOMAIN branches
    /\ branches'[head] = h
    /\ \A b \in DOMAIN branches \ {head} : branches'[b] = branches[b]

NothingChanges == UNCHANGED <<commits, branches, branch_order, head, next_id>>

\* C1: where the head branch's commit C and the named branch's commit T are
\* set, differ and neither is an ancestor of the other, merge(name, message)
\* registers exactly one new commit with a fresh id and parents <<C, T>>,
\* points the head branch at it and returns it; head and the other branches
\* stay as they were.
C1_DivergentMergeCreatesCommit ==
    [][\A n \in Names :
        (/\ Initialized
         /\ n \in DOMAIN branches
         /\ branches[head] # None
         /\ branches[n] # None
         /\ branches[head] # branches[n]
         /\ ~ProperAncestor(commits, branches[n], branches[head])
         /\ ~ProperAncestor(commits, branches[head], branches[n])
         /\ Called("merge", n))
        => /\ Succeeded
           /\ RegistersOnly([hash |-> last'.ret, message |-> last'.message,
                             parents |-> <<branches[head], branches[n]>>])
           /\ OnlyHeadBranchMoves(last'.ret)]_vars

C1_Witness ==
    /\ last.op = "merge"
    /\ last.err = NoErr
    /\ last.ret \in DOMAIN commits
    /\ last.ret \notin {last.before, branches[last.name]}
    /\ commits[last.ret].parents = <<last.before, branches[last.name]>>
    /\ ~ProperAncestor(commits, last.before, branches[last.name])
    /\ ~ProperAncestor(commits, branches[last.name], last.before)
    /\ branches[head] = last.ret

\* C2: where the named branch's commit T is set and the head branch has no
\* commit or a commit that is a proper ancestor of T, merge(name) creates no
\* commit, points the head branch at T and returns T; head and the other
\* branches stay as they were.
C2_FastForward ==
    [][\A n \in Names :
        (/\ Initialized
         /\ n \in DOMAIN branches
         /\ branches[n] # None
         /\ \/ branches[head] = None
            \/ ProperAncestor(commits, branches[head], branches[n])
         /\ Called("merge", n))
        => /\ Succeeded
           /\ last'.ret = branches[n]
           /\ commits' = commits
           /\ next_id' = next_id
           /\ OnlyHeadBranchMoves(branches[n])]_vars

C2_Witness ==
    /\ last.op = "merge"
    /\ last.err = NoErr
    /\ last.before # None
    /\ last.ret # None
    /\ ProperAncestor(commits, last.before, last.ret)
    /\ last.name # head
    /\ branches[last.name] = last.ret
    /\ branches[head] = last.ret

\* C3: where the head branch's commit C and the named branch's commit T are
\* set and T is a proper ancestor of C, merge(name) returns C, creates no
\* commit and changes nothing.
C3_AncestorMergeIsNoOp ==
    [][\A n \in Names :
        (/\ Initialized
         /\ n \in DOMAIN branches
         /\ branches[head] # None
         /\ branches[n] # None
         /\ ProperAncestor(commits, branches[n], branches[head])
         /\ Called("merge", n))
        => /\ Succeeded
           /\ last'.ret = branches[head]
           /\ NothingChanges]_vars

\* C4: where the head branch and the named branch point at the same commit
\* (the head branch itself included), merge(name) returns that commit,
\* creates no commit and changes nothing.
C4_SameCommitMergeIsNoOp ==
    [][\A n \in Names :
        (/\ Initialized
         /\ n \in DOMAIN branches
         /\ branches[head] # None
         /\ branches[n] = branches[head]
         /\ Called("merge", n))
        => /\ Succeeded
           /\ last'.ret = branches[head]
           /\ NothingChanges]_vars

C4_Witness ==
    /\ last.op = "merge"
    /\ last.err = NoErr
    /\ last.name # head
    /\ last.before # None
    /\ last.ret = last.before
    /\ branches[last.name] = last.before
    /\ branches[head] = last.before

\* C5 (as claimed): in every initialized state and for every unused name,
\* branch(name) followed at once by merge(name) is a no-op that returns the
\* current commit: the merge raises no error, creates no commit and moves no
\* branch pointer.
C5_BranchThenMergeIsNoOp ==
    [][\A n \in Names :
        (/\ last.op = "branch" /\ last.name = n /\ last.err.type = ""
         /\ Called("merge", n))
        => /\ Succeeded
           /\ last'.ret = branches[head]
           /\ NothingChanges]_vars

\* C5 (amended): where the head branch has a commit, branch(name) followed at
\* once by merge(name) is a no-op that returns the current commit; where the
\* head branch has no commit, the merge fails with the empty-branch error.
\* Either way no commit is created and nothing changes.
C5_BranchThenMergeAmended ==
    [][\A n \in Names :
        (/\ last.op = "branch" /\ last.name = n /\ last.err.type = ""
         /\ Called("merge", n))
        => /\ NothingChanges
           /\ branches[head] # None => Succeeded /\ last'.ret = branches[head]
           /\ branches[head] = None => IsEmptyBranch(last'.err)]_vars

C5_Witness ==
    /\ last.op = "merge"
    /\ last.after_branch
    /\ last.err = NoErr
    /\ last.name # head
    /\ last.before # None
    /\ last.ret = last.before
    /\ branches[last.name] = last.before

\* C6 (as claimed): before init has run, each of commit, branch, checkout and
\* merge fails with the not-initialized error (a RuntimeError) and leaves the
\* graph as it was: no branches, no commits, no head, the counter untouched.
C6_UninitializedCallsFail ==
    [][(/\ ~Initialized
        /\ last'.op \in {"commit", "branch", "checkout", "merge"})
        => /\ IsNotInitialized(last'.err)
           /\ NothingChanges
           /\ commits' = <<>> /\ branches' = <<>> /\ head' = NoHead]_vars

\* C6 (amended): before init has run, commit, branch and merge fail with the
\* not-initialized error (a RuntimeError) and checkout fails with the
\* not-found error (a ValueError); each leaves the graph as it was.
C6_UninitializedCallsAmended ==
    [][(/\ ~Initialized
        /\ last'.op \in {"commit", "branch", "checkout", "merge"})
        => /\ last'.op # "checkout" => IsNotInitialized(last'.err)
           /\ last'.op = "checkout" => IsNotFound(last'.err)
           /\ NothingChanges
           /\ commits' = <<>> /\ branches' = <<>> /\ head' = NoHead]_vars

C6_Witness ==
    /\ ~Initialized
    /\ last.op \in {"commit", "branch", "merge"}
    /\ last.err.type = "RuntimeError"
    /\ commits = <<>> /\ branches = <<>> /\ next_id = 1

\* C7: in an initialized graph, merge(name) of an existing branch without a
\* commit fails with the empty-branch error, whether or not the head branch
\* has a commit and whether or not name is the head branch, and changes
\* nothing.
C7_MergeEmptyBranchFails ==
    [][\A n \in Names :
        (/\ Initialized
         /\ n \in DOMAIN branches
         /\ branches[n] = None
         /\ Called("merge", n))
        => /\ IsEmptyBranch(last'.err)
           /\ NothingChanges]_vars

C7_Witness ==
    /\ last.op = "merge"
    /\ last.err.msg = "Cannot merge: branch has no commits"
    /\ last.before = None
    /\ last.name # head
    /\ branches[last.name] = None
    /\ commits # <<>>

\* C8: checkout(name) sets head to the branch called name exactly when name
\* is in the branch mapping, and then changes nothing else; otherwise it
\* fails with the not-found error and changes nothing.
C8_Checkout ==
    [][\A n \in Names :
        Called("checkout", n)
        => /\ n \in DOMAIN branches
              => /\ Succeeded
                 /\ head' = n
                 /\ UNCHANGED <<commits, branches, branch_order, next_id>>
           /\ n \notin DOMAIN branches
              => /\ IsNotFound(last'.err)
                 /\ NothingChanges]_vars

C8_Witness ==
    /\ last.op = "checkout"
    /\ last.err = NoErr
    /\ head = last.name
    /\ head # "main"
    /\ last.before # branches[head]

\* C9: in an initialized graph, branch(name) with an unused name adds exactly
\* one branch, pointing at the head branch's commit (possibly None), and
\* leaves head, the other branches, the registry and the counter as they
\* were; with a name in use it fails with the already-exists error and
\* changes nothing.
C9_Branch ==
    [][\A n \in Names :
        (Initialized /\ Called("branch", n))
        => /\ n \notin DOMAIN branches
              => /\ Succeeded
                 /\ last'.ret_branch = n
                 /\ DOMAIN branches' = DOMAIN branches \cup {n}
                 /\ branches'[n] = branches[head]
                 /\ \A b \in DOMAIN branches : branches'[b] = branches[b]
                 /\ branch_order' = Append(branch_order, n)
                 /\ UNCHANGED <<commits, head, next_id>>
           /\ n \in DOMAIN branches
              => /\ IsAlreadyExists(last'.err)
                 /\ NothingChanges]_vars

C9_Witness ==
    /\ last.op = "branch"
    /\ last.err = NoErr
    /\ last.name \in DOMAIN branches
    /\ last.name # head
    /\ last.before # None
    /\ branches[last.name] = last.before
    /\ branches[head] = last.before

\* C10: in an initialized graph, commit(message) registers exactly one new
\* commit with a fresh id, whose parents are the head branch's previous
\* commit if it had one and none otherwise, points the head branch at it and
\* returns it; head and the other branches stay as they were.
C10_Commit ==
    [][(Initialized /\ last'.op = "commit")
        => /\ Succeeded
           /\ RegistersOnly([hash |-> last'.ret, message |-> last'.message,
                             parents |-> IF branches[head] = None
                                         THEN <<>>
                                         ELSE <<branches[head]>>])
           /\ OnlyHeadBranchMoves(last'.ret)]_vars

C10_Witness ==
    /\ last.op = "commit"
    /\ last.err = NoErr
    /\ last.before # None
    /\ last.ret \in DOMAIN commits
    /\ commits[last.ret].parents = <<last.before>>
    /\ branches[head] = last.ret
    /\ \E b \in DOMAIN branches : b # head /\ branches[b] # last.ret

\* C11: init on a fresh graph creates exactly one branch, main, without a
\* commit, and sets head to it; init on an initialized graph changes
\* nothing, so a second init leaves the state of the first.
C11_InitIdempotent ==
    [][last'.op = "init"
        => /\ Succeeded
           /\ ~Initialized
              => /\ DOMAIN branches' = {"main"}
                 /\ branches'["main"] = None
                 /\ branch_order' = <<"main">>
                 /\ head' = "main"
                 /\ UNCHANGED <<commits, next_id>>
           /\ Initialized => NothingChanges]_vars

C11_Witness ==
    /\ last.op = "init"
    /\ last.err = NoErr
    /\ commits # <<>>
    /\ head # "main"
    /\ branches["main"] # None
    /\ Cardinality(DOMAIN branches) > 1

\* C12 (as claimed): after every call of init that returns, in any state,
\* head is set and is the branch stored under the name main.
C12_HeadIsMainAfterInit ==
    (last.op = "init" /\ last.err.type = "")
        => (head # NoHead /\ "main" \in DOMAIN branches /\ head = "main")

\* C12 (amended): after every call of init that returns, head is set and is
\* a branch of the mapping, and main is in the mapping; head is main after
\* init on a fresh graph, and is the branch it was before after init on an
\* initialized graph.
C12_HeadSetAfterInit ==
    [][last'.op = "init"
        => /\ Succeeded
           /\ head' # NoHead
           /\ head' \in DOMAIN branches'
           /\ "main" \in DOMAIN branches'
           /\ ~Initialized => head' = "main"
           /\ Initialized => head' = head]_vars

C12_Witness ==
    /\ last.op = "init"
    /\ last.err = NoErr
    /\ head \in DOMAIN branches
    /\ head # "main"
    /\ "main" \in DOMAIN branches

\* C13: every registered commit has an id of its own, and each of its parents
\* was registered before it: the parent's id is in the registry and is
\* smaller than the commit's, so there are no forward references or cycles.
C13_UniqueIdsNoForwardReferences ==
    /\ Cardinality(DOMAIN commits) = next_id - 1
    /\ \A h \in DOMAIN commits :
        /\ commits[h].hash = h
        /\ \A g \in DOMAIN commits : commits[g].hash = commits[h].hash => g = h
        /\ \A i \in DOMAIN commits[h].parents :
            /\ commits[h].parents[i] \in DOMAIN commits
            /\ commits[h].parents[i] < h

C13_Witness ==
    /\ Cardinality(DOMAIN commits) >= 4
    /\ \E h \in DOMAIN commits :
        /\ Len(commits[h].parents) = 2
        /\ \E g \in DOMAIN commits : h \in Range(commits[g].parents)

\* C14: every branch with a commit points at a commit of the registry, and
\* every parent of every registered commit is in the registry.
C14_NoDanglingReferences ==
    /\ \A b \in DOMAIN branches :
        branches[b] # None
            => branches[b] \in DOMAIN commits /\ commits[branches[b]].hash = branches[b]
    /\ \A h \in DOMAIN commits :
        \A i \in DOMAIN commits[h].parents :
            commits[h].parents[i] \in DOMAIN commits

C14_Witness ==
    /\ last.op = "merge"
    /\ last.ret \in DOMAIN commits
    /\ Len(commits[last.ret].parents) = 2
    /\ \E b \in DOMAIN branches : branches[b] \notin {None, last.ret}
    /\ \E b \in DOMAIN branches : branches[b] = None

HeadInMapping ==
    IF head = NoHead
    THEN branches = <<>> /\ commits = <<>> /\ last.op # "init"
    ELSE head \in DOMAIN branches

C16_HeadOnlyMovesByCheckout ==
    /\ HeadInMapping
    /\ [][/\ HeadInMapping'
          /\ Initialized
             => /\ head' # NoHead
                /\ head' # head => last'.op = "checkout" /\ head' = last'.name
                /\ last'.op \in {"init", "commit", "branch", "merge"} => head' = head]_vars

C16_Witness ==
    /\ last.op = "merge"
    /\ last.err = NoErr
    /\ head \notin {"main", last.name}
    /\ last.ret \in DOMAIN commits
    /\ last.ret # last.before
    /\ branches[head] = last.ret

\* C17: to_graph returns exactly: one head node HEAD with one points_to edge
\* from HEAD to the head branch's name iff head is set; one branch node per
\* branch, with a points_to edge from its name to its commit's id iff it has
\* a commit; one commit node per registered commit; one parent edge from a
\* commit's id to the parent's id for every parent of every commit.
ExpectedNodes ==
    (IF head # NoHead THEN {[id |-> "HEAD", kind |-> "head", label |-> "HEAD"]} ELSE {})
    \cup {[id |-> b, kind |-> "branch", label |-> b] : b \in DOMAIN branches}
    \cup {[id |-> str(h), kind |-> "commit", label |-> str(h)] : h \in DOMAIN commits}

ExpectedEdges ==
    (IF head # NoHead
     THEN {[kind |-> "points_to", source |-> "HEAD", target |-> head]} ELSE {})
    \cup {[kind |-> "points_to", source |-> b, target |-> str(branches[b])] :
            b \in {x \in DOMAIN branches : branches[x] # None}}
    \cup UNION {{[kind |-> "parent", source |-> str(h),
                  target |-> str(commits[h].parents[i])] : i \in DOMAIN commits[h].parents} :
                h \in DOMAIN commits}

C17_ToGraphExact ==
    last.op = "to_graph"
        => /\ Range(last.graph[1]) = ExpectedNodes
           /\ Len(last.graph[1]) = Cardinality(ExpectedNodes)
           /\ Range(last.graph[2]) = ExpectedEdges
           /\ Len(last.graph[2]) = Cardinality(ExpectedEdges)

C17_Witness ==
    /\ last.op = "to_graph"
    /\ head # "main"
    /\ \E b \in DOMAIN branches : branches[b] = None
    /\ \E b \in DOMAIN branches : branches[b] # None
    /\ \E h \in DOMAIN commits : Len(commits[h].parents) = 2
    /\ Len(last.graph[1]) = 7
    /\ Len(last.graph[2]) >= 6

\* C18: to_graph changes nothing in the graph, and what it returned is what
\* a call on that unchanged graph returns: the same nodes and edges in the
\* same order.
C18_ToGraphPure ==
    [][last'.op = "to_graph"
        => /\ NothingChanges
           /\ last'.graph = <<to_graph_nodes, to_graph_edges>>
           /\ last.op = "to_graph" => last'.graph = last.graph]_vars

C18_Witness ==
    /\ last.op = "to_graph"
    /\ Len(branch_order) = 3
    /\ branch_order[3] = head
    /\ commits # <<>>
    /\ last.graph = <<to_graph_nodes, to_graph_edges>>
    /\ Len(last.graph[2]) >= 5

(***************************************************************************)
(* LayoutEngine.compute_layout: continuity and the active branch           *)
(***************************************************************************)
BranchIds(nodes) == {nodes[i].id : i \in {j \in DOMAIN nodes : nodes[j].kind = "branch"}}
HeadIds(nodes) == {nodes[i].id : i \in {j \in DOMAIN nodes : nodes[j].kind = "head"}}
CommitIds(nodes) == {nodes[i].id : i \in {j \in DOMAIN nodes : nodes[j].kind = "commit"}}

\* C19: over two successive compute_layout calls of one engine, any two
\* branches in both node lists keep the difference of their z coordinates,
\* and every branch in the second list only is strictly below (smaller z
\* than) every branch in both lists.
C19_LayoutContinuity ==
    [][LET both == BranchIds(layout_nodes) \cap BranchIds(layout_nodes')
           new == BranchIds(layout_nodes') \ BranchIds(layout_nodes)
       IN /\ \A a, b \in both :
                 node_coords'[a][3] - node_coords'[b][3]
                     = node_coords[a][3] - node_coords[b][3]
          /\ \A n \in new, o \in both :
                 node_coords'[n][3] < node_coords'[o][3]]_vars

\* the active branch of the latest call, as the specification defines it:
\* the branch the HEAD node's points_to edge targets, else main, else the
\* smallest branch id
ActiveBranch ==
    LET bids == BranchIds(layout_nodes)
        targets == {layout_edges[i].target : i \in
                       {j \in DOMAIN layout_edges :
                           /\ layout_edges[j].kind = "points_to"
                           /\ layout_edges[j].source \in HeadIds(layout_nodes)
                           /\ layout_edges[j].target \in bids}}
    IN IF targets # {} THEN CHOOSE t \in targets : TRUE
       ELSE IF "main" \in bids THEN "main"
       ELSE CHOOSE b \in bids : \A c \in bids : StrRank(b) <= StrRank(c)

\* the x of the head column: 1.5 + 1.0 to the right of the last commit
HeadColumn ==
    LET n == Cardinality(CommitIds(layout_nodes))
    IN (IF n = 0 THEN 0 ELSE float(n - 1)) + BRANCH_COLUMN_OFFSET + HEAD_COLUMN_OFFSET

\* C20: after a compute_layout call whose node list has a branch, the
\* active branch is at z = 0, whatever its name, and every head node is at
\* z = 0 in the head column.
C20_ActiveBranchAtZero ==
    BranchIds(layout_nodes) # {} =>
        /\ node_coords[ActiveBranch][3] = 0
        /\ \A h \in HeadIds(layout_nodes) :
               node_coords[h] = <<HeadColumn, 0, 0>>

(***************************************************************************)
(* Repo.merge: the traversal and the history it keeps                      *)
(***************************************************************************)
\* the parent references in the registry
ParentCount ==
    Cardinality(UNION {{<<h, i>> : i \in DOMAIN commits[h].parents} : h \in DOMAIN commits})

NoDuplicates(seq) == \A i, j \in DOMAIN seq : seq[i] = seq[j] => i = j

\* the branches whose merge into the head branch runs the traversal
Traversed ==
    IF head = NoHead THEN {}
    ELSE {b \in DOMAIN branches :
             /\ branches[b] # None
             /\ branches[head] # None
             /\ branches[b] # branches[head]}

\* the traversal merge(b) runs in this state, given one pass through the
\* loop for the start commit and one for every parent reference
Traversal(b) ==
    is_ancestor_run(<<branches[b]>>, {}, branches[head], <<>>, 0, 1 + ParentCount)

\* C28: the ancestor traversal of merge ends on every graph that can be
\* reached (within one pass for the start and one per parent reference),
\* expands no commit id twice, and answers whether the head branch's commit
\* is the merged commit or one of its ancestors.
C28_AncestorTraversalTerminates ==
    \A b \in Traversed :
        /\ Traversal(b).finished
        /\ NoDuplicates(Traversal(b).expanded)
        /\ Traversal(b).result = is_ancestor(branches[b], branches[head])
        /\ Traversal(b).result = (branches[head] \in Ancestors(commits, branches[b]))

\* a traversal over a merge commit that meets an id it has expanded already
C28_Witness ==
    \E b \in Traversed :
        /\ Traversal(b).finished
        /\ ~Traversal(b).result
        /\ Traversal(b).iterations > Len(Traversal(b).expanded)
        /\ \E i \in DOMAIN Traversal(b).expanded :
               Len(commits[Traversal(b).expanded[i]].parents) = 2

\* C29: after a successful merge(name) the commit of the named branch and
\* the commit the head branch pointed at before (if any) are each the head
\* branch's commit or an ancestor of it.
C29_MergeKeepsBothHistories ==
    [][\A n \in Names :
          (Called("merge", n) /\ Succeeded)
              => /\ branches'[n] \in Ancestors(commits', branches'[head'])
                 /\ last'.before # None
                        => last'.before \in Ancestors(commits', branches'[head'])]_vars

\* a merge that made a merge commit: both sides are proper ancestors
C29_Witness ==
    /\ last.op = "merge"
    /\ last.err = NoErr
    /\ last.before # None
    /\ Len(commits[branches[head]].parents) = 2
    /\ ProperAncestor(commits, last.before, branches[head])
    /\ ProperAncestor(commits, branches[last.name], branches[head])

\* C30: across every operation no branch and no registered commit is
\* removed or altered, a branch that has a commit keeps having one, and the
\* commit it had is the commit it has afterwards or an ancestor of it.
C30_PointersOnlyAdvance ==
    [][/\ DOMAIN commits \subseteq DOMAIN commits'
       /\ \A h \in DOMAIN commits : commits'[h] = commits[h]
       /\ DOMAIN branches \subseteq DOMAIN branches'
       /\ \A b \in DOMAIN branches :
              branches[b] # None
                  => /\ branches'[b] # None
                     /\ branches[b] \in Ancestors(commits', branches'[b])]_vars

\* a fast-forward has moved the head branch over more than one commit
C30_Witness ==
    /\ last.op = "merge"
    /\ last.err = NoErr
    /\ last.before # None
    /\ last.ret = branches[head]
    /\ last.ret = branches[last.name]
    /\ ProperAncestor(commits, last.before, branches[head])
    /\ last.before \notin Range(commits[branches[head]].parents)

(***************************************************************************)
(* build_timeline                                                          *)
(***************************************************************************)
\* snapshot is a projection of the graph as it is now
IsProjection(snapshot) ==
    /\ Range(snapshot[1]) = ExpectedNodes
    /\ Len(snapshot[1]) = Cardinality(ExpectedNodes)
    /\ Range(snapshot[2]) = ExpectedEdges
    /\ Len(snapshot[2]) = Cardinality(ExpectedEdges)

InBuildTimeline == pc \in {"build_timeline", "snapshot"}

\* the command the loop of build_timeline is at
CurrentCommand == commands[Len(snapshots) + 1]

Operations == {"init", "commit", "branch", "checkout", "merge"}

\* C21: the commands are applied in their order, one per pass; the pass
\* that applied a command appends one snapshot, the projection of the graph
\* as that command left it; a snapshot once captured never changes; and
\* when every command has succeeded the Timeline returned holds these
\* snapshots, the commands and the command texts, as many of each as there
\* are commands.
C21_TimelineSnapshots ==
    [][/\ (pc = "build_timeline" /\ pc' = "snapshot")
              => /\ last'.op = CurrentCommand.name
                 /\ applied = Len(snapshots)
       /\ pc = "snapshot"
              => /\ NothingChanges
                 /\ Len(snapshots') = Len(snapshots) + 1
                 /\ IsProjection(snapshots'[Len(snapshots')])
                 /\ Len(command_texts') = Len(snapshots')
       /\ (InBuildTimeline /\ pc' \in {"build_timeline", "snapshot"})
              => \A i \in DOMAIN snapshots : snapshots'[i] = snapshots[i]
       /\ pc' = "Timeline"
              => /\ timeline'[1].snapshots = snapshots
                 /\ timeline'[1].commands = commands
                 /\ Len(timeline'[1].snapshots) = Len(commands)
                 /\ Len(timeline'[1].command_texts) = Len(commands)
       /\ timeline # <<>> => timeline' = timeline]_vars

\* a Timeline of five snapshots, the graph having changed between them
C21_Witness ==
    /\ pc = "Timeline"
    /\ Len(timeline[1].snapshots) = 5
    /\ Len(timeline[1].command_texts) = 5
    /\ timeline[1].command_texts[2] = "commit(message='c1')"
    /\ timeline[1].snapshots[1] # timeline[1].snapshots[2]
    /\ timeline[1].snapshots[4] # timeline[1].snapshots[5]
    /\ IsProjection(timeline[1].snapshots[5])

\* C22: a command that fails ends build_timeline at once with that
\* command's error: the failing command changes nothing in the graph (what
\* the commands before it did stays), no Timeline is returned, and no
\* command is applied afterwards.
C22_FailureStopsTimeline ==
    [][/\ pc # "raise"
       /\ (pc = "build_timeline" /\ last'.err # NoErr) => pc' = "raise"
       /\ pc' = "raise"
              => /\ pc = "build_timeline"
                 /\ last'.op = CurrentCommand.name
                 /\ last'.err # NoErr
                 /\ NothingChanges
                 /\ applied' = applied
                 /\ applied = Len(snapshots)
                 /\ timeline' = <<>>]_vars

\* the fourth command failed; the graph has the commit of an earlier one
C22_Witness ==
    /\ pc = "raise"
    /\ applied = 3
    /\ Len(commands) = 5
    /\ last.op = commands[4].name
    /\ last.err.type = "ValueError"
    /\ commits # <<>>
    /\ timeline = <<>>

\* the snapshots the caller of build_timeline can reach: those of the
\* Timeline it was given, or, while the call is running, the local list
CallerSnapshots == IF timeline # <<>> THEN timeline[1].snapshots ELSE snapshots

\* C23: when build_timeline has failed at a command, the snapshots captured
\* for the commands before it are still there for the caller, one for each
\* command that had succeeded.
C23_SnapshotsSurviveFailure ==
    pc = "raise" => Len(CallerSnapshots) = applied

\* C24: a command whose name is none of init, commit, branch, checkout,
\* merge makes build_timeline fail, before the graph changes and before a
\* snapshot is added.
C24_UnknownOperationFails ==
    [][(pc = "build_timeline"
          /\ Len(snapshots) < Len(commands)
          /\ CurrentCommand.name \notin Operations)
            => /\ pc' = "raise"
               /\ NothingChanges]_vars

(***************************************************************************)
(* TimelineViewer                                                          *)
(***************************************************************************)
\* C25: in a viewer on any timeline, the empty one too, the index is at
\* least 0 and at most len(snapshots) - 1, from the start and after every
\* on_right and on_left.
C25_IndexInRange ==
    pc = "TimelineViewer" => (0 <= index /\ index <= total_steps - 1)

\* what a navigation call that does nothing leaves behind
NoMove == index' = index /\ draws' = 0 /\ drawn' = drawn

\* what a navigation call that moves to the index i leaves behind
MoveTo(i) ==
    /\ index' = i
    /\ draws' = 1
    /\ drawn' = <<timeline[1].snapshots[i + 1][1], timeline[1].snapshots[i + 1][2], FALSE>>

C27_DrawAfterOperation ==
    /\ []((pc = "GitSimApp" /\ last.op \in Operations)
            => IF last.err = NoErr
               THEN /\ draws = 1
                    /\ Len(drawn) = 3
                    /\ IsProjection(drawn)
                    /\ drawn[3] = TRUE
               ELSE draws = 0)
    /\ [][/\ pc = "GitSimApp"
              => /\ last'.op \in Operations
                 /\ draws' = 0
                 /\ drawn' = drawn
                 /\ pc' = IF last'.err = NoErr THEN "_refresh" ELSE "GitSimApp"
                 /\ last'.err # NoErr => NothingChanges
          /\ pc = "_refresh"
              => /\ NothingChanges
                 /\ last' = last
                 /\ draws' = 1
                 /\ pc' = "GitSimApp"]_vars

\* a merge commit was made and the graph drawn shows it
C27_Witness ==
    /\ pc = "GitSimApp"
    /\ last.op = "merge"
    /\ last.err = NoErr
    /\ last.ret # None
    /\ \E h \in DOMAIN commits : Len(commits[h].parents) = 2
    /\ draws = 1
    /\ IsProjection(drawn)

(***************************************************************************)
(* The layout the viewer draws, and the two layout implementations         *)
(***************************************************************************)
\* C31: in a viewer on a Timeline that build_timeline returned, whenever a
\* navigation call has drawn the snapshot at the index, the coordinates
\* computed for it are those computed the first time that index was shown,
\* whatever calls led there.
C31_SameLayoutAtIndex ==
    (pc = "TimelineViewer" /\ draws = 1) => vis_coords = shown[index]

====
